---- MODULE Spec2Model ----
(***************************************************************************)
(* Model of src/functions.py: evaluate_model_metrics, the metrics          *)
(* aggregator, with the scikit-learn, numpy and pandas calls it makes, and *)
(* move_column_before.                                                     *)
(*                                                                         *)
(* Numbers.  A probability is the integer p standing for p / Scale, a      *)
(* threshold is the integer t standing for t / (2 * Scale), so that a      *)
(* threshold can fall on a probability or between two of them.  A metric   *)
(* value is an exact fraction <<n, d>> in lowest terms with d > 0; the     *)
(* floating point not-a-number is NaN == <<0, 0>>.  Floating point         *)
(* rounding is not modelled: two scores tie in the model exactly when the  *)
(* fractions are equal.                                                    *)
(***************************************************************************)
EXTENDS Integers, Sequences, FiniteSets, TLC

\* ------------------------------------------------------------------ bounds
MaxN == 2          \* longest label vector of a call (Spec)
MaxNAgain == 3     \* longest label vector of a repeated call (SpecAgain)
Scale == 2         \* probabilities are 0/Scale .. Scale/Scale
MaxCols == 4       \* most columns of a DataFrame (SpecMove)

ModelNames == {"A", "B"}
ColumnNames == {"a", "b", "c"}
Probabilities == 0 .. Scale
\* thresholds 0 .. 1 in steps of 1/Scale (0 and 1 lie outside (0, 1)), and
\* -1/(2 Scale) .. (2 Scale + 1)/(2 Scale) in steps of 1/(2 Scale)
Thresholds == {2 * t : t \in 0 .. Scale}
FineThresholds == (0 - 1) .. (2 * Scale + 1)

\* ------------------------------------------------------------- fractions
NaN == <<0, 0>>

IsNaN(v) == v[2] = 0

RECURSIVE GCD(_, _)
GCD(a, b) == IF b = 0 THEN a ELSE GCD(b, a % b)

\* numpy true division n / d of two non-negative counts: 0 / 0 is nan
Frac(n, d) ==
    IF d = 0 THEN NaN
    ELSE LET g == GCD(n, d) IN <<n \div g, d \div g>>

Plus(a, b) ==
    IF IsNaN(a) \/ IsNaN(b) THEN NaN
    ELSE Frac(a[1] * b[2] + b[1] * a[2], a[2] * b[2])

Times(a, b) ==
    IF IsNaN(a) \/ IsNaN(b) THEN NaN
    ELSE Frac(a[1] * b[1], a[2] * b[2])

\* a - b, for a >= b
Minus(a, b) ==
    IF IsNaN(a) \/ IsNaN(b) THEN NaN
    ELSE Frac(a[1] * b[2] - b[1] * a[2], a[2] * b[2])

\* comparisons of floats: every comparison with nan is false
Less(a, b) == ~IsNaN(a) /\ ~IsNaN(b) /\ a[1] * b[2] < b[1] * a[2]
LessEq(a, b) == ~IsNaN(a) /\ ~IsNaN(b) /\ a[1] * b[2] <= b[1] * a[2]

Zero == <<0, 1>>
One == <<1, 1>>
Half == <<1, 2>>

\* --------------------------------------------------------------- helpers
Count(S) == Cardinality(S)

RECURSIVE SumSeq(_)
SumSeq(s) == IF s = <<>> THEN Zero ELSE Plus(Head(s), SumSeq(Tail(s)))

Max(S) == CHOOSE x \in S : \A y \in S : y <= x

\* the distinct elements of S as a decreasing sequence
RECURSIVE Descending(_)
Descending(S) ==
    IF S = {} THEN <<>> ELSE <<Max(S)>> \o Descending(S \ {Max(S)})

Positives(y) == Count({k \in DOMAIN y : y[k] = 1})
Negatives(y) == Count({k \in DOMAIN y : y[k] = 0})

\* ------------------------------------------------- sklearn.metrics curves
\* _binary_clf_curve: one point per distinct score, scores decreasing; at
\* score s, tps counts the positives and fps the negatives scored >= s.
ClfThresholds(proba) == Descending({proba[k] : k \in DOMAIN proba})

Tps(y, proba, s) == Count({k \in DOMAIN y : y[k] = 1 /\ proba[k] >= s})
Fps(y, proba, s) == Count({k \in DOMAIN y : y[k] = 0 /\ proba[k] >= s})

ClfCurve(y, proba) ==
    LET th == ClfThresholds(proba)
    IN  [j \in DOMAIN th |->
            [fps |-> Fps(y, proba, th[j]), tps |-> Tps(y, proba, th[j])]]

\* numpy.trapz over points given as records [x, y] of fractions
Trapz(pts) ==
    SumSeq([j \in 1 .. (Len(pts) - 1) |->
        Times(Half,
              Times(Minus(pts[j + 1].x, pts[j].x),
                    Plus(pts[j + 1].y, pts[j].y)))])

\* the same, for x running downwards (sklearn.metrics.auc, direction = -1)
TrapzDown(pts) ==
    SumSeq([j \in 1 .. (Len(pts) - 1) |->
        Times(Half,
              Times(Minus(pts[j].x, pts[j + 1].x),
                    Plus(pts[j + 1].y, pts[j].y)))])

SelectIdx(s, keep) ==
    LET F[j \in 0 .. Len(s)] ==
            IF j = 0 THEN <<>>
            ELSE IF j \in keep THEN Append(F[j - 1], s[j]) ELSE F[j - 1]
    IN  F[Len(s)]

\* roc_curve (drop_intermediate=True) followed by auc(fpr, tpr)
RocAuc(y, proba) ==
    LET c == ClfCurve(y, proba)
        m == Len(c)
        optimal == {j \in 1 .. m :
                        \/ j = 1
                        \/ j = m
                        \/ c[j + 1].fps - 2 * c[j].fps + c[j - 1].fps # 0
                        \/ c[j + 1].tps - 2 * c[j].tps + c[j - 1].tps # 0}
        kept == <<[fps |-> 0, tps |-> 0]>> \o SelectIdx(c, optimal)
        pts == [j \in DOMAIN kept |->
                   [x |-> Frac(kept[j].fps, Negatives(y)),
                    y |-> Frac(kept[j].tps, Positives(y))]]
    IN  Trapz(pts)

\* precision_recall_curve: precision and recall at each threshold, listed by
\* increasing threshold, then the end point (recall 0, precision 1).  With
\* no positive label recall is set to one at every threshold.
PrCurve(y, proba) ==
    LET c == ClfCurve(y, proba)
        m == Len(c)
        at(j) == [x |-> IF Positives(y) = 0 THEN One
                        ELSE Frac(c[j].tps, Positives(y)),
                  y |-> IF c[j].tps + c[j].fps = 0 THEN Zero
                        ELSE Frac(c[j].tps, c[j].tps + c[j].fps)]
    IN  [j \in 1 .. m |-> at(m + 1 - j)] \o <<[x |-> Zero, y |-> One]>>

\* auc(recall, precision): recall runs downwards
PrAuc(y, proba) == TrapzDown(PrCurve(y, proba))

\* average_precision_score: -sum(diff(recall) * precision[:-1])
AveragePrecision(y, proba) ==
    LET pts == PrCurve(y, proba)
    IN  SumSeq([j \in 1 .. (Len(pts) - 1) |->
            Times(Minus(pts[j].x, pts[j + 1].x), pts[j].y)])

\* brier_score_loss: mean((proba - y) ** 2)
RECURSIVE SumInts(_)
SumInts(s) == IF s = <<>> THEN 0 ELSE Head(s) + SumInts(Tail(s))

\* mutant: the squared errors summed, not averaged
BrierScoreSum(y, proba) ==
    Frac(SumInts([k \in DOMAIN y |->
                    (proba[k] - y[k] * Scale) * (proba[k] - y[k] * Scale)]),
         Scale * Scale)

BrierScore(y, proba) ==
    Frac(SumInts([k \in DOMAIN y |->
                    (proba[k] - y[k] * Scale) * (proba[k] - y[k] * Scale)]),
         Len(y) * Scale * Scale)

\* ------------------------------------------- metrics at a fixed threshold
\* mutant: proba >= threshold
PredictedLabelsGeq(proba, t) ==
    [k \in DOMAIN proba |-> IF 2 * proba[k] >= t THEN 1 ELSE 0]

\* np.where(proba > threshold, 1, 0)
PredictedLabels(proba, t) ==
    [k \in DOMAIN proba |-> IF 2 * proba[k] > t THEN 1 ELSE 0]

TP(y, pred) == Count({k \in DOMAIN y : y[k] = 1 /\ pred[k] = 1})
FP(y, pred) == Count({k \in DOMAIN y : y[k] = 0 /\ pred[k] = 1})
TN(y, pred) == Count({k \in DOMAIN y : y[k] = 0 /\ pred[k] = 0})
FN(y, pred) == Count({k \in DOMAIN y : y[k] = 1 /\ pred[k] = 0})

\* precision_score, recall_score (zero_division="warn": 0.0 for 0 / 0)
PrecisionScore(y, pred) ==
    IF TP(y, pred) + FP(y, pred) = 0 THEN Zero
    ELSE Frac(TP(y, pred), TP(y, pred) + FP(y, pred))

\* mutant: recall computed with the false positives in the denominator
RecallOverPredicted(y, pred) ==
    IF TP(y, pred) + FP(y, pred) = 0 THEN Zero
    ELSE Frac(TP(y, pred), TP(y, pred) + FP(y, pred))

RecallScore(y, pred) ==
    IF TP(y, pred) + FN(y, pred) = 0 THEN Zero
    ELSE Frac(TP(y, pred), TP(y, pred) + FN(y, pred))

\* confusion_matrix(y, pred).ravel(): one row and column per label that
\* occurs in y or pred, so four entries only when both labels occur.
ConfusionRavel(y, pred) ==
    LET labels == {y[k] : k \in DOMAIN y} \cup {pred[k] : k \in DOMAIN pred}
    IN  IF labels = {0, 1}
        THEN <<TN(y, pred), FP(y, pred), FN(y, pred), TP(y, pred)>>
        ELSE <<Len(y)>>

\* mutant: 0 / 0 guarded to 0.0
SpecificityGuarded(tn, fp) == IF tn + fp = 0 THEN Zero ELSE Frac(tn, tn + fp)

\* tn / (tn + fp) on numpy integers: 0 / 0 is nan, not an exception
Specificity(tn, fp) == Frac(tn, tn + fp)

\* ------------------------------------------------------------ the table
MetricKeys ==
    <<"Metric", "AUC ROC", "PR AUC", "Precision", "Recall", "Specificity",
      "Average Precision", "Brier Score">>

MetricNames == Tail(MetricKeys)

Range(s) == {s[j] : j \in DOMAIN s}

EmptyMetricsDict == [k \in Range(MetricKeys) |-> <<>>]

NoFrame == [index |-> <<>>, columns |-> <<>>, data |-> <<>>]

\* mutant: the last position that holds the largest value
IdxMaxLast(series) ==
    LET ok == {j \in DOMAIN series : ~IsNaN(series[j])}
        best == {j \in ok : \A k \in ok : LessEq(series[k], series[j])}
    IN  IF best = {} THEN 0 ELSE CHOOSE j \in best : \A k \in best : k <= j

\* Series.idxmax / idxmin (skipna=True): the first position that holds the
\* largest / smallest value that is not nan; 0 when there is none.
IdxMax(series) ==
    LET ok == {j \in DOMAIN series : ~IsNaN(series[j])}
        best == {j \in ok : \A k \in ok : LessEq(series[k], series[j])}
    IN  IF best = {} THEN 0 ELSE CHOOSE j \in best : \A k \in best : j <= k

IdxMin(series) ==
    LET ok == {j \in DOMAIN series : ~IsNaN(series[j])}
        best == {j \in ok : \A k \in ok : LessEq(series[j], series[k])}
    IN  IF best = {} THEN 0 ELSE CHOOSE j \in best : \A k \in best : j <= k

\* mutant: the largest value wins for every metric
BestIdxAlwaysMax(md, metric) == IdxMax(md[metric])

\* the row label picked for one metric of the frame built from md
BestIdx(md, metric) ==
    IF metric = "Brier Score" THEN IdxMin(md[metric]) ELSE IdxMax(md[metric])

\* mutant: the model columns in reverse insertion order
FrameReversed(md, best_models) ==
    LET names == md["Metric"]
        pos(c) == CHOOSE j \in DOMAIN names : names[j] = c
        row(m) == CHOOSE r \in DOMAIN MetricNames : MetricNames[r] = m
    IN  [index |-> MetricNames,
         columns |-> [j \in DOMAIN names |-> names[Len(names) + 1 - j]]
                        \o <<"Best Model">>,
         data |-> [m \in Range(MetricNames) |->
                     [c \in Range(names) \cup {"Best Model"} |->
                         IF c = "Best Model" THEN best_models[row(m)]
                         ELSE md[m][pos(c)]]]]

\* metrics_df after set_index("Metric"), .T and the "Best Model" column
Frame(md, best_models) ==
    LET names == md["Metric"]
        pos(c) == CHOOSE j \in DOMAIN names : names[j] = c
        row(m) == CHOOSE r \in DOMAIN MetricNames : MetricNames[r] = m
    IN  [index |-> MetricNames,
         columns |-> names \o <<"Best Model">>,
         data |-> [m \in Range(MetricNames) |->
                     [c \in Range(names) \cup {"Best Model"} |->
                         IF c = "Best Model" THEN best_models[row(m)]
                         ELSE md[m][pos(c)]]]]

\* ------------------------------------------------------------ the state
VARIABLES
    y_test,            \* the label vector of the call
    model_dict,        \* the model map, in insertion order: <<[name, proba]>>
    threshold,         \* the threshold of the call
    pc,                \* "loop", "returned" or "raised"
    i,                 \* number of items of model_dict the loop has finished
    metrics_dict,      \* the lists filled by the loop
    predicted_labels,  \* the binarized predictions of the last iteration
    metrics_df,        \* the returned table (NoFrame until the return)
    error,             \* the exception that ended the call ("none" if none)
    previous           \* threshold and table of the call made before this one

\* move_column_before
VARIABLES
    df,                \* df.columns: the column labels, left to right
    target_column,     \* the column to move
    before_column,     \* the column it is moved in front of
    move_pc,           \* "idle", "call", "returned" or "raised"
    returned_columns,  \* the returned frame: per column, its position in df
    returned_df,       \* TRUE when the returned object is df itself
    printed,           \* TRUE when the message was printed
    move_error         \* the exception that ended the call ("none" if none)

moveVars ==
    <<df, target_column, before_column, move_pc, returned_columns,
      returned_df, printed, move_error>>

metricsVars ==
    <<y_test, model_dict, threshold, pc, i, metrics_dict, predicted_labels,
      metrics_df, error, previous>>

vars == <<metricsVars, moveVars>>

\* no call of move_column_before is under way
MoveIdle ==
    /\ df = <<>>
    /\ target_column = "a"
    /\ before_column = "a"
    /\ move_pc = "idle"
    /\ returned_columns = <<>>
    /\ returned_df = FALSE
    /\ printed = FALSE
    /\ move_error = "none"

NoCall == [threshold |-> 0, metrics_df |-> NoFrame, made |-> FALSE]

\* ----------------------------------------------------------- the inputs
LabelVectors(max) == UNION {[1 .. n -> {0, 1}] : n \in 1 .. max}

\* probability vectors of the labels' length n, and one sample short of it
ProbaVectors(n) == [1 .. n -> Probabilities]
AnyProbaVectors(n) == ProbaVectors(n) \cup ProbaVectors(n - 1)

\* the insertion orders of the subsets of ModelNames
NameOrders ==
    {ns \in UNION {[1 .. k -> ModelNames] : k \in 0 .. Cardinality(ModelNames)} :
        \A a, b \in DOMAIN ns : a # b => ns[a] # ns[b]}

ModelDicts(orders, vectors) ==
    UNION {{[j \in DOMAIN ns |-> [name |-> ns[j], proba |-> f[j]]] :
                f \in [DOMAIN ns -> vectors]} : ns \in orders}

Start ==
    /\ pc = "loop"
    /\ i = 0
    /\ metrics_dict = EmptyMetricsDict
    /\ predicted_labels = <<>>
    /\ metrics_df = NoFrame
    /\ error = "none"

\* any call: the map may be empty, a vector may be one sample short, the
\* labels may hold one class only, the threshold may lie outside (0, 1)
Init ==
    /\ y_test \in LabelVectors(MaxN)
    /\ model_dict \in ModelDicts(NameOrders, AnyProbaVectors(Len(y_test)))
    /\ threshold \in Thresholds
    /\ previous = NoCall
    /\ Start
    /\ MoveIdle

\* ------------------------------------------------------------ the steps
Raise(e) ==
    /\ pc' = "raised"
    /\ error' = e
    /\ UNCHANGED <<i, metrics_dict, metrics_df>>

\* one pass of the loop over model_dict.items()
Iterate ==
    /\ pc = "loop"
    /\ i < Len(model_dict)
    /\ LET name == model_dict[i + 1].name
           proba == model_dict[i + 1].proba
           pred == PredictedLabels(proba, threshold)
       IN  IF Len(proba) # Len(y_test)
           THEN \* roc_curve: inconsistent numbers of samples
                /\ Raise("ValueError")
                /\ UNCHANGED predicted_labels
           ELSE /\ predicted_labels' = pred
                /\ LET cm == ConfusionRavel(y_test, pred)
                   IN  IF Len(cm) # 4
                       THEN \* tn, fp, _, _ = ...: not enough values to unpack
                            Raise("ValueError")
                       ELSE /\ metrics_dict' =
                                 [k \in Range(MetricKeys) |->
                                    Append(metrics_dict[k],
                                      CASE k = "Metric" -> name
                                        [] k = "AUC ROC" -> RocAuc(y_test, proba)
                                        [] k = "PR AUC" -> PrAuc(y_test, proba)
                                        [] k = "Precision" ->
                                               PrecisionScore(y_test, pred)
                                        [] k = "Recall" ->
                                               RecallScore(y_test, pred)
                                        [] k = "Specificity" ->
                                               Specificity(cm[1], cm[2])
                                        [] k = "Average Precision" ->
                                               AveragePrecision(y_test, proba)
                                        [] k = "Brier Score" ->
                                               BrierScore(y_test, proba))]
                            /\ i' = i + 1
                            /\ UNCHANGED <<pc, error, metrics_df>>
    /\ UNCHANGED <<y_test, model_dict, threshold, previous>>
    /\ UNCHANGED moveVars

\* after the loop: the frame, the best model of every metric, the return
BuildTable ==
    /\ pc = "loop"
    /\ i = Len(model_dict)
    /\ LET idx == [r \in DOMAIN MetricNames |->
                      BestIdx(metrics_dict, MetricNames[r])]
           best_models == [r \in DOMAIN MetricNames |->
                              metrics_dict["Metric"][idx[r]]]
       IN  IF \E r \in DOMAIN idx : idx[r] = 0
           THEN IF Len(metrics_dict["Metric"]) = 0
                THEN \* idxmax of an empty sequence
                     Raise("ValueError")
                ELSE \* idxmax of an all-nan column: nan, which .loc does not
                     \* find (KeyError), or ValueError in a later pandas
                     \E e \in {"KeyError", "ValueError"} : Raise(e)
           ELSE /\ metrics_df' = Frame(metrics_dict, best_models)
                /\ pc' = "returned"
                /\ UNCHANGED <<i, metrics_dict, error>>
    /\ UNCHANGED <<y_test, model_dict, threshold, predicted_labels, previous>>
    /\ UNCHANGED moveVars

Next == Iterate \/ BuildTable

Spec == Init /\ [][Next]_vars

\* --------------------------------------------------- a repeated call
\* mutant: the lists of metrics_dict survive from one call to the next
CallAgainStale ==
    /\ pc = "returned"
    /\ ~previous.made
    /\ previous' =
           [threshold |-> threshold, metrics_df |-> metrics_df, made |-> TRUE]
    /\ threshold' \in FineThresholds
    /\ pc' = "loop"
    /\ i' = 0
    /\ predicted_labels' = <<>>
    /\ metrics_df' = NoFrame
    /\ error' = "none"
    /\ UNCHANGED <<y_test, model_dict, metrics_dict>>
    /\ UNCHANGED moveVars

\* the caller evaluates the same labels and models at another threshold
\* (or at the same one)
CallAgain ==
    /\ pc = "returned"
    /\ ~previous.made
    /\ previous' =
           [threshold |-> threshold, metrics_df |-> metrics_df, made |-> TRUE]
    /\ threshold' \in FineThresholds
    /\ pc' = "loop"
    /\ i' = 0
    /\ metrics_dict' = EmptyMetricsDict
    /\ predicted_labels' = <<>>
    /\ metrics_df' = NoFrame
    /\ error' = "none"
    /\ UNCHANGED <<y_test, model_dict>>
    /\ UNCHANGED moveVars

\* calls with at most one model, whose vector has the labels' length
InitAgain ==
    /\ y_test \in LabelVectors(MaxNAgain)
    /\ model_dict \in ModelDicts({ns \in NameOrders : Len(ns) <= 1},
                                 ProbaVectors(Len(y_test)))
    /\ threshold \in FineThresholds
    /\ previous = NoCall
    /\ Start
    /\ MoveIdle

NextAgain == Iterate \/ BuildTable \/ CallAgain

SpecAgain == InitAgain /\ [][NextAgain]_vars

\* -------------------------------------------------- move_column_before
\* x in s, for a list or for df.columns
Contains(s, x) == \E j \in DOMAIN s : s[j] = x

\* list.index(x), counted from 0; -1 stands for its ValueError
ListIndex(s, x) ==
    IF Contains(s, x)
    THEN (CHOOSE j \in DOMAIN s : s[j] = x /\ \A k \in 1 .. (j - 1) : s[k] # x) - 1
    ELSE 0 - 1

\* list.remove(x): the list without the first x
ListRemove(s, x) ==
    LET at == ListIndex(s, x) + 1
    IN  [j \in 1 .. (Len(s) - 1) |-> IF j < at THEN s[j] ELSE s[j + 1]]

\* mutant: x inserted after the item at idx
ListInsertAfter(s, idx, x) ==
    SubSeq(s, 1, idx + 1) \o <<x>> \o SubSeq(s, idx + 2, Len(s))

\* list.insert(idx, x), idx counted from 0
ListInsert(s, idx, x) ==
    SubSeq(s, 1, idx) \o <<x>> \o SubSeq(s, idx + 1, Len(s))

RECURSIVE Concat(_)
Concat(ss) == IF ss = <<>> THEN <<>> ELSE Head(ss) \o Concat(Tail(ss))

\* df[cols]: for every label of cols in turn, every column of df that
\* carries the label, left to right; a column is named by its position
Reindex(columns, cols) ==
    Concat([j \in DOMAIN cols |->
        SelectIdx([k \in DOMAIN columns |-> k],
                  {k \in DOMAIN columns : columns[k] = cols[j]})])

\* mutant: the guard passes when either column exists
EitherColumnExists(columns, target, before) ==
    Contains(columns, target) \/ Contains(columns, before)

\* not (target_column not in df.columns or before_column not in df.columns)
BothColumnsExist(columns, target, before) ==
    Contains(columns, target) /\ Contains(columns, before)

DataFrames == UNION {[1 .. n -> ColumnNames] : n \in 0 .. MaxCols}

InitMove ==
    /\ df \in DataFrames
    /\ target_column \in ColumnNames
    /\ before_column \in ColumnNames
    /\ move_pc = "call"
    /\ returned_columns = <<>>
    /\ returned_df = FALSE
    /\ printed = FALSE
    /\ move_error = "none"
    /\ y_test = <<>>
    /\ model_dict = <<>>
    /\ threshold = 0
    /\ previous = NoCall
    /\ pc = "idle"
    /\ i = 0
    /\ metrics_dict = EmptyMetricsDict
    /\ predicted_labels = <<>>
    /\ metrics_df = NoFrame
    /\ error = "none"

MoveRaise(e) ==
    /\ move_pc' = "raised"
    /\ move_error' = e
    /\ UNCHANGED <<returned_columns, returned_df, printed>>

\* the whole of move_column_before
MoveColumnBefore ==
    /\ move_pc = "call"
    /\ IF ~BothColumnsExist(df, target_column, before_column)
       THEN /\ printed' = TRUE
            /\ returned_df' = TRUE
            /\ returned_columns' = [k \in DOMAIN df |-> k]
            /\ move_pc' = "returned"
            /\ UNCHANGED move_error
       ELSE IF ~Contains(df, target_column)
       THEN \* cols.remove(target_column): x not in list
            MoveRaise("ValueError")
       ELSE LET cols == ListRemove(df, target_column)
                before_column_index == ListIndex(cols, before_column)
            IN  IF before_column_index < 0
                THEN \* cols.index(before_column): not in list
                     MoveRaise("ValueError")
                ELSE /\ returned_columns' =
                          Reindex(df, ListInsert(cols, before_column_index,
                                                 target_column))
                     /\ returned_df' = FALSE
                     /\ move_pc' = "returned"
                     /\ UNCHANGED <<printed, move_error>>
    /\ UNCHANGED <<df, target_column, before_column>>
    /\ UNCHANGED metricsVars

NextMove == MoveColumnBefore

SpecMove == InitMove /\ [][NextMove]_vars

\* ------------------------------------------------------------ the claims
Returned == pc = "returned"
Finished == pc # "loop"

Names == [j \in DOMAIN model_dict |-> model_dict[j].name]
ProbaOf(c) == model_dict[CHOOSE j \in DOMAIN model_dict : Names[j] = c].proba
PosOf(c) == CHOOSE j \in DOMAIN model_dict : Names[j] = c

Cell(m, c) == metrics_df.data[m][c]
Best(m) == metrics_df.data[m]["Best Model"]
Before(m, c) == previous.metrics_df.data[m][c]

BothClasses == Positives(y_test) > 0 /\ Negatives(y_test) > 0
SameLengths ==
    \A j \in DOMAIN model_dict : Len(model_dict[j].proba) = Len(y_test)
ThresholdInside == 0 < threshold /\ threshold < 2 * Scale
ValidInputs ==
    model_dict # <<>> /\ BothClasses /\ SameLengths /\ ThresholdInside

\* C1: in every returned table the "Best Model" of a metric is a model whose
\* score on that metric is the largest of all models (the smallest for
\* "Brier Score"), and two rows of the same kind that hold the same scores
\* name the same best model.
C1_BestModelIsArgmax ==
    Returned =>
        /\ \A m \in Range(MetricNames) :
            /\ Best(m) \in Range(Names)
            /\ \A c \in Range(Names) :
                IF m = "Brier Score"
                THEN LessEq(Cell(m, Best(m)), Cell(m, c))
                ELSE LessEq(Cell(m, c), Cell(m, Best(m)))
        /\ \A m1, m2 \in Range(MetricNames) \ {"Brier Score"} :
            (\A c \in Range(Names) : Cell(m1, c) = Cell(m2, c))
                => Best(m1) = Best(m2)

\* a table of two models in which the lower Brier Score and the higher
\* AUC ROC each decide the best model
C1_Witness ==
    /\ Returned
    /\ Len(model_dict) = 2
    /\ \E c \in Range(Names) :
        Less(Cell("Brier Score", Best("Brier Score")), Cell("Brier Score", c))
    /\ \E c \in Range(Names) :
        Less(Cell("AUC ROC", c), Cell("AUC ROC", Best("AUC ROC")))

\* C2: when several models hold the best score of a metric, the "Best
\* Model" is the one of them inserted first into model_dict.
C2_TiesFirstInserted ==
    Returned =>
        \A m \in Range(MetricNames) : \A c \in Range(Names) :
            Cell(m, c) = Cell(m, Best(m)) => PosOf(Best(m)) <= PosOf(c)

\* B inserted before A, both tied on AUC ROC and on Brier Score
C2_Witness ==
    /\ Returned
    /\ Names = <<"B", "A">>
    /\ Cell("AUC ROC", "A") = Cell("AUC ROC", "B")
    /\ Cell("Brier Score", "A") = Cell("Brier Score", "B")
    /\ Best("AUC ROC") = "B"
    /\ Best("Brier Score") = "B"

C5_DegenerateLabelsError ==
    (/\ Finished
     /\ ~BothClasses
     /\ model_dict # <<>> /\ SameLengths /\ ThresholdInside) =>
        (pc = "raised" /\ error = "DegenerateLabelsError")

\* C6: when some vector's length differs from the labels' (the other inputs
\* valid), the call fails and no metric of any model is ever computed.
C6_ShapeMismatchFailsFast ==
    (~SameLengths /\ BothClasses /\ ThresholdInside) =>
        /\ metrics_dict = EmptyMetricsDict
        /\ Finished => pc = "raised"

\* C7: a call whose threshold lies outside (0, 1) (its other inputs valid)
\* fails and returns no table.
C7_InvalidThresholdFails ==
    (/\ Finished
     /\ ~ThresholdInside
     /\ model_dict # <<>> /\ SameLengths /\ BothClasses) =>
        pc = "raised"

\* C8: a call with an empty model map (valid labels and threshold) ends
\* with EmptyModelMapError.
C8_EmptyModelMapError ==
    (Finished /\ model_dict = <<>> /\ BothClasses /\ ThresholdInside) =>
        (pc = "raised" /\ error = "EmptyModelMapError")

\* C10: for valid inputs every metric value of the returned table lies in
\* the closed interval [0, 1].
C10_MetricsInUnitInterval ==
    (Returned /\ ValidInputs) =>
        \A m \in Range(MetricNames) : \A c \in Range(Names) :
            LessEq(Zero, Cell(m, c)) /\ LessEq(Cell(m, c), One)

\* a valid call whose table holds a value strictly inside (0, 1), a 0 and a 1
C10_Witness ==
    /\ Returned
    /\ ValidInputs
    /\ \E m \in Range(MetricNames) : \E c \in Range(Names) :
        Less(Zero, Cell(m, c)) /\ Less(Cell(m, c), One)
    /\ \E m \in Range(MetricNames) : \E c \in Range(Names) : Cell(m, c) = One
    /\ \E m \in Range(MetricNames) : \E c \in Range(Names) : Cell(m, c) = Zero

\* the item of model_dict whose predictions predicted_labels holds
LastItem == IF pc = "raised" /\ i < Len(model_dict) THEN i + 1 ELSE i

FreeOfThreshold == {"AUC ROC", "PR AUC", "Average Precision", "Brier Score"}

\* C4: a sample is predicted positive exactly when its probability is
\* strictly greater than the threshold, and a call repeated at another
\* threshold returns the same AUC ROC, PR AUC, Average Precision and Brier
\* Score.
C4_StrictThresholdOnly ==
    /\ predicted_labels # <<>> =>
        LET proba == model_dict[LastItem].proba
        IN  /\ DOMAIN predicted_labels = DOMAIN proba
            /\ \A k \in DOMAIN proba :
                predicted_labels[k] = 1 <=> 2 * proba[k] > threshold
            /\ \A k \in DOMAIN proba :
                predicted_labels[k] = 0 <=> 2 * proba[k] <= threshold
    /\ (Returned /\ previous.made) =>
        \A m \in FreeOfThreshold : \A c \in Range(Names) :
            Cell(m, c) = Before(m, c)

\* a repeated call at another threshold, with a probability equal to the
\* threshold that is predicted negative, and a different Recall
C4_Witness ==
    /\ Returned
    /\ previous.made
    /\ previous.threshold # threshold
    /\ \E k \in DOMAIN predicted_labels :
        2 * model_dict[1].proba[k] = threshold /\ predicted_labels[k] = 0
    /\ Cell("Recall", Names[1]) # Before("Recall", Names[1])

\* C9: of two calls on the same labels and probabilities, the one at the
\* higher (or equal) threshold has the lower or equal Recall and the higher
\* or equal Specificity.
C9_ThresholdMonotone ==
    (Returned /\ previous.made) =>
        \A c \in Range(Names) :
            /\ previous.threshold <= threshold =>
                /\ LessEq(Cell("Recall", c), Before("Recall", c))
                /\ LessEq(Before("Specificity", c), Cell("Specificity", c))
            /\ threshold <= previous.threshold =>
                /\ LessEq(Before("Recall", c), Cell("Recall", c))
                /\ LessEq(Cell("Specificity", c), Before("Specificity", c))

\* the threshold raised inside (0, 1): Recall falls and Specificity rises
C9_Witness ==
    /\ Returned
    /\ previous.made
    /\ 0 < previous.threshold
    /\ previous.threshold < threshold
    /\ threshold < 2 * Scale
    /\ Less(Cell("Recall", Names[1]), Before("Recall", Names[1]))
    /\ Less(Before("Specificity", Names[1]), Cell("Specificity", Names[1]))

\* the label vector holds no actual negative; the other inputs are valid
NoNegatives ==
    /\ Negatives(y_test) = 0
    /\ model_dict # <<>> /\ SameLengths /\ ThresholdInside

C12_PureAndIdempotent ==
    /\ [][y_test' = y_test /\ model_dict' = model_dict]_vars
    /\ []((pc = "loop" /\ i = 0) => metrics_dict = EmptyMetricsDict)
    /\ []((Returned /\ previous.made /\ previous.threshold = threshold) =>
            metrics_df = previous.metrics_df)

\* the second of two calls with identical inputs has returned
C12_Witness ==
    /\ Returned
    /\ previous.made
    /\ previous.threshold = threshold
    /\ ThresholdInside

\* the returned frame's labels, left to right
ReturnedLabels == [j \in DOMAIN returned_columns |-> df[returned_columns[j]]]

MoveFinished == move_pc \in {"returned", "raised"}
BothInDf == Contains(df, target_column) /\ Contains(df, before_column)
UniqueLabels == \A j, k \in DOMAIN df : df[j] = df[k] => j = k

\* every column of df exactly once
IsPermutation ==
    /\ Len(returned_columns) = Len(df)
    /\ {returned_columns[j] : j \in DOMAIN returned_columns} = DOMAIN df

TargetLeftOfBefore ==
    \E j \in DOMAIN returned_columns :
        /\ ReturnedLabels[j] = target_column
        /\ j + 1 \in DOMAIN returned_columns
        /\ ReturnedLabels[j + 1] = before_column

OthersKeepOrder ==
    \A j, k \in DOMAIN returned_columns :
        (/\ j < k
         /\ ReturnedLabels[j] # target_column
         /\ ReturnedLabels[k] # target_column) =>
            returned_columns[j] < returned_columns[k]

Moved ==
    /\ move_pc = "returned"
    /\ IsPermutation
    /\ TargetLeftOfBefore
    /\ OthersKeepOrder

\* C13 as stated: whenever target_column and before_column are both columns
\* of df, the call returns df's columns permuted, target_column immediately
\* left of before_column, the other columns in their order.
C13_MovedForAnyColumns ==
    (MoveFinished /\ BothInDf) => Moved

\* C13, amended: so it is when the two columns are different and df's
\* labels are unique; when target_column and before_column are the same
\* column of df the call raises ValueError.
C13_MovedForDistinctColumns ==
    /\ (MoveFinished /\ BothInDf /\ target_column # before_column
            /\ UniqueLabels) =>
        (Moved /\ ~printed /\ move_error = "none")
    /\ (MoveFinished /\ BothInDf /\ target_column = before_column
            /\ UniqueLabels) =>
        (move_pc = "raised" /\ move_error = "ValueError")

\* target_column moved leftwards over another column, with a column on
\* either side of the pair
C13_Witness ==
    /\ move_pc = "returned"
    /\ df = <<"c", "b", "c", "a">> \/ df = <<"b", "c", "a">>
    /\ UniqueLabels
    /\ target_column = "a"
    /\ before_column = "c"
    /\ ReturnedLabels = <<"b", "a", "c">>

====
